---- MODULE Spec2Model ----
(***************************************************************************)
(* The scenario scripts of testsprite_tests: fifteen scripts that share    *)
(* one shape.  Each script defines run_test (acquire a Playwright runtime, *)
(* a Chromium browser, a context and a page; navigate; best-effort waits;  *)
(* a list of navigate/click/fill steps; in some scripts a terminal         *)
(* assertion; a finally block that releases the handles) and then calls    *)
(* asyncio.run(run_test()).  The model follows one launched script from    *)
(* the moment the interpreter loads it until run_test has returned or      *)
(* raised.  Every awaited browser operation either returns or raises.      *)
(***************************************************************************)
EXTENDS Naturals, Sequences, FiniteSets

\* Bounds of the environment: pages the application may have open in the
\* context, and frames the main page may hold when page.frames is read.
MaxPages == 2
MaxFrames == 2

\* Bound on the number of scenario runs that execute concurrently.
NRuns == 2

Scripts ==
    { "TC001", "TC002", "TC003", "TC004", "TC005", "TC006", "TC008", "TC009",
      "TC010", "TC011", "TC012", "TC013", "TC015", "TC016", "TC018" }

\* The step list of each script: one entry per await page.goto(...) and per
\* "await page.wait_for_timeout(3000); await elem.click/fill(...)" line after
\* the stabilization block, in source order.
Steps(s) ==
    CASE s = "TC001" ->
      <<
        "goto", "click", "click", "fill", "click", "fill", "click", "click", "click",
        "fill", "fill", "fill", "fill", "fill", "fill", "fill", "fill", "click",
        "click", "click", "click", "click", "goto", "goto" >>
      [] s = "TC002" ->
      <<
        "goto", "click", "click", "fill", "click", "click", "fill", "click", "click",
        "click", "click", "click", "click", "click", "click", "click", "click", "click",
        "click", "click", "click", "click", "click", "click", "click", "click", "click",
        "click", "click", "click" >>
      [] s = "TC003" ->
      <<
        "goto", "click", "click", "fill", "click", "fill", "click", "click", "click",
        "click", "click", "click", "click", "click" >>
      [] s = "TC004" ->
      <<
        "goto", "click", "click", "fill", "fill", "click", "click", "click", "click",
        "click", "click", "click" >>
      [] s = "TC005" ->
      <<
        "goto", "click", "click", "fill", "fill", "click", "click", "click", "click",
        "fill", "fill", "fill", "fill", "fill", "click", "fill", "fill", "fill",
        "click", "click", "click", "click", "click", "click", "click", "click", "click",
        "click", "click", "click" >>
      [] s = "TC006" ->
      <<
        "goto", "click", "click", "fill", "fill", "click", "click", "click", "click",
        "click", "click", "click", "click", "click", "fill", "click", "click", "click" >>
      [] s = "TC008" ->
      <<
        "goto", "click", "click", "fill", "fill", "click", "click", "click", "click",
        "click", "click", "click", "click", "click", "click", "click", "click", "click",
        "click", "click", "click", "click", "click" >>
      [] s = "TC009" ->
      <<
        "goto", "click", "click", "fill", "fill", "click", "click", "click", "click",
        "click", "click", "click", "click", "click", "click", "click", "click" >>
      [] s = "TC010" ->
      <<
        "goto", "click", "click", "fill", "fill", "click", "click", "click", "click",
        "click", "click", "click", "click", "goto", "goto" >>
      [] s = "TC011" ->
      <<
        "goto", "click", "click", "fill", "click", "fill", "click", "click", "click",
        "click", "click", "click", "click", "click", "click", "click", "click", "click",
        "click", "click", "click", "click", "click", "click" >>
      [] s = "TC012" ->
      <<
        "goto", "click", "click", "fill", "fill", "click", "click", "click", "fill",
        "fill", "fill", "fill", "fill", "fill", "click", "click", "click", "click",
        "click", "click", "click" >>
      [] s = "TC013" ->
      <<
        "goto", "click", "click", "fill", "fill", "click", "click", "click", "fill",
        "fill", "fill", "fill", "fill", "fill", "click", "click", "click", "click",
        "click" >>
      [] s = "TC015" ->
      <<
        "goto", "click", "click", "goto", "click", "click", "goto", "click", "click",
        "goto", "click", "click", "goto", "click", "click", "goto", "click", "click" >>
      [] s = "TC016" ->
      <<
        "goto", "click", "click", "fill", "click", "fill", "click", "click", "click",
        "click", "click", "click", "click", "click", "click", "click", "click" >>
      [] s = "TC018" ->
      <<
        "goto", "click", "click", "fill", "click", "fill", "click", "click", "click",
        "click", "fill", "fill", "fill", "fill", "fill", "fill", "fill", "fill",
        "click", "click", "click", "click" >>

\* Scripts that end their step list with the try: await expect(...) block.
HasAssert(s) == s \in { "TC001", "TC009", "TC010", "TC011", "TC013", "TC016" }

\* The visible text the assertion block of a script waits for.
ExpectedText(s) ==
    CASE s = "TC001" -> "AI-generated Quotation"
      [] s = "TC009" -> "Application Denied"
      [] s = "TC010" -> "Workflow Progress Updated"
      [] s = "TC011" -> "Quotation Approved - Notification sent to test@demo.com"
      [] s = "TC013" -> "Automation Achieved: 80% - Workflow Time Reduced by 30%"
      [] s = "TC016" -> "Workflow Paused - waiting for other parallel branches"
      [] OTHER -> "none"

\* Index of the step that fills 'Insufficient documentation and elevated risk
\* flags ... rejecting application. ...' into the review dialog (0: the script
\* has no such step); the next step clicks the dialog's button.
RejectionReasonStep(s) == IF s = "TC006" THEN 15 ELSE 0

\* Indices i such that steps i and i + 1 are clicks on the same locator.
RepeatedClicks(s) ==
    CASE s = "TC001" -> { 2, 8 }
      [] s = "TC002" -> { 2, 8, 10, 19 }
      [] s = "TC003" -> { 2, 8 }
      [] s = "TC004" -> { 2 }
      [] s = "TC005" -> { 2, 20, 22, 28 }
      [] s = "TC006" -> { 2, 7 }
      [] s = "TC008" -> { 2, 7, 15, 22 }
      [] s = "TC009" -> { 2, 7, 13 }
      [] s = "TC010" -> { 2 }
      [] s = "TC011" -> { 2, 16, 19, 22, 23 }
      [] s = "TC012" -> { 2, 7, 16 }
      [] s = "TC013" -> { 2, 7, 16 }
      [] s = "TC015" -> { 2, 5, 14, 17 }
      [] s = "TC016" -> { 2, 14, 15 }
      [] s = "TC018" -> { 2, 7, 9, 21 }

\* TC010 holds two lines of ``` inside run_test: the file does not compile.
HasSyntaxError(s) == s = "TC010"

\* The scripts import asyncio and the module playwright.async_api only; the
\* name expect used by the assertion block is bound nowhere.
ExpectImported == FALSE

Handles == { "pw", "browser", "context" }

\* The concurrent runs, their positions, and the objects the automation
\* library hands out.  An object is known by the run whose call created it
\* and by its kind; recorded are how many objects of that kind the run has
\* created, the runs that called a method on it, and the number of calls of
\* its release.
Runs == 1..NRuns

ParPcs ==
    { "start", "launch", "new_context", "new_page", "steps", "fin_context",
      "fin_browser", "fin_pw", "done" }

ParObjects == [ made : Nat, users : SUBSET Runs, rel : Nat ]

NoExc == [ cls |-> "none", at |-> "none", tag |-> "none", msg |-> "none" ]

Exc(cls, at, tag, msg) == [ cls |-> cls, at |-> at, tag |-> tag, msg |-> msg ]

\* Class hierarchy used by the except clauses: playwright's TimeoutError and
\* TargetClosedError derive from playwright's Error.
IsPlaywrightError(cls) == cls \in { "Error", "TimeoutError" }

VARIABLES
    script,     \* the launched script
    pc,         \* position of the run
    ip,         \* index of the current step in Steps(script), 0 outside the steps
    handle,     \* value of the locals pw, browser, context: "None" or "obj"
    rel,        \* per handle: number of times its release was called
    relRaised,  \* per handle: whether its release raised
    page,       \* the local page: 0 unbound, else the id of the page it opened
    nPages,     \* len(context.pages); the pages are 1..nPages in opening order
    frame,      \* the local frame: the page bound by frame = context.pages[-1]
    target,     \* page the last click/fill acted on (0: none yet)
    nFrames,    \* len(page.frames) as read by the for loop
    fi,         \* index of the frame the loop is at
    textVisible,\* whether the expected text is visible in the final page state
                \* (FALSE in a script that names no expected text)
    asserted,   \* whether the terminal assertion statement has been executed
    finallyEntered, \* whether control has entered the finally block
    exc,        \* the exception propagating out of run_test, NoExc if none
    firstExc,   \* the first exception raised and not caught where it was raised
    waitFails,  \* the best-effort waits that raised: a subset of {main, frame}
    inflight,   \* indices of the steps whose action is issued and not resolved
    lastIssued,  \* index of the step whose action was issued last, 0 if none
    bindLast,  \* len(context.pages) when frame = context.pages[-1] last ran (0: never)
    navPage,    \* page the last page.goto / page.wait_for_timeout was called on
    par  \* concurrent runs: positions, handle locals per namespace, objects created

\* The state of the one run the model follows in full.
runVars == << script, pc, ip, handle, rel, relRaised, page, nPages, frame,
              target, nFrames, fi, textVisible, asserted,
              finallyEntered, exc, firstExc, waitFails, inflight,
              lastIssued, bindLast, navPage >>

vars == << runVars, par >>

SetupPcs == { "start", "launch", "new_context", "new_page" }
StabilizePcs == { "goto0", "wait_main", "wait_frames" }
StepPcs == { "goto", "going", "bind", "settle", "act", "acting" }
AssertPcs == { "assert_bind", "expect" }
TeardownPcs == { "fin_context", "fin_browser", "fin_pw" }
PcValues ==
    { "load", "not_run", "sleep", "done" } \cup SetupPcs \cup StabilizePcs
        \cup StepPcs \cup AssertPcs \cup TeardownPcs

TypeOK ==
    /\ script \in Scripts
    /\ pc \in PcValues
    /\ ip \in 0..Len(Steps(script))
    /\ handle \in [Handles -> { "None", "obj" }]
    /\ rel \in [Handles -> Nat]
    /\ relRaised \in [Handles -> BOOLEAN]
    /\ page \in 0..1
    /\ nPages \in 0..MaxPages
    /\ frame \in 0..MaxPages
    /\ target \in 0..MaxPages
    /\ nFrames \in 0..MaxFrames
    /\ fi \in 0..(MaxFrames + 1)
    /\ textVisible \in BOOLEAN
    /\ asserted \in BOOLEAN
    /\ finallyEntered \in BOOLEAN
    /\ waitFails \in SUBSET { "main", "frame" }
    /\ inflight \in SUBSET (1..Len(Steps(script)))
    /\ lastIssued \in 0..Len(Steps(script))
    /\ bindLast \in 0..MaxPages
    /\ navPage \in 0..MaxPages
    /\ par \in [ pc : [Runs -> ParPcs],
                  store : [Runs -> [Handles -> Runs \cup { 0 }]],
                  heap : [Runs -> [Handles -> ParObjects]] ]

Init ==
    /\ script \in Scripts
    /\ pc = "load"
    /\ ip = 0
    /\ handle = [h \in Handles |-> "None"]
    /\ rel = [h \in Handles |-> 0]
    /\ relRaised = [h \in Handles |-> FALSE]
    /\ page = 0
    /\ nPages = 0
    /\ frame = 0
    /\ target = 0
    /\ nFrames = 0
    /\ fi = 0
    /\ textVisible \in (IF HasAssert(script) THEN BOOLEAN ELSE { FALSE })
    /\ asserted = FALSE
    /\ finallyEntered = FALSE
    /\ exc = NoExc
    /\ firstExc = NoExc
    /\ navPage = 0
    /\ par = [ pc |-> [r \in Runs |-> "start"],
               store |-> [n \in Runs |-> [h \in Handles |-> 0]],
               heap |-> [r \in Runs |-> [h \in Handles |->
                           [ made |-> 0, users |-> {}, rel |-> 0 ]]] ]
    /\ bindLast = 0
    /\ lastIssued = 0
    /\ inflight = {}
    /\ waitFails = {}

(***************************************************************************)
(* Control flow of run_test                                                *)
(***************************************************************************)

\* Variants of the control transfer after an exception: a run_test without
\* the finally block, and a harness that re-issues the failed operation.
LeaveWithoutFinally(p) == "done"

RetryInPlace(p) == p

\* Variant: a harness that issues a failed action once more.
ReissueAfterRaise(p) ==
    CASE p = "acting" -> "act"
      [] p = "going" -> "goto"
      [] OTHER -> "fin_context"

\* try: ... finally: an exception that leaves the try body at position p
\* transfers control to the first statement of the finally block.
HandlerAfterRaise(p) == "fin_context"

\* An exception raised by a statement of the finally block leaves run_test:
\* the remaining statements of the block are not executed.
AfterReleaseRaise(p) == "done"

\* Variant: the load-state waits without their except clause.
CatchesNothing(cls) == FALSE

\* except async_api.Error: pass (main page and frame load-state waits).
BestEffortCatches(cls) == IsPlaywrightError(cls)

\* Variant: a finally block that releases without checking for None.
NoGuard(v) == TRUE

\* if context: / if browser: / if pw: in the finally block.
FinallyGuard(v) == v # "None"

\* await expect(frame.locator(...).first).to_be_visible(timeout=3000): the
\* name expect is looked up first; when it is bound the call returns if the
\* text is visible within the timeout and raises AssertionError otherwise.
ExpectOutcome(visible) ==
    IF ~ExpectImported THEN "NameError"
    ELSE IF visible THEN "ok"
    ELSE "AssertionError"

\* except AssertionError: raise AssertionError("Test case failed: ...").
AssertHandlerCatches(cls) == cls = "AssertionError"

\* What an awaited navigation or interaction can raise: playwright's
\* TimeoutError when its timeout elapses, or another playwright Error (the
\* server refuses the connection, the page or the browser is gone).
GotoFaults ==
    { << "TimeoutError", "ActionTimeout" >>, << "Error", "InteractionFault" >> }

ActFaults ==
    { << "TimeoutError", "TargetUnavailable" >>,
      << "TimeoutError", "ActionTimeout" >>,
      << "Error", "InteractionFault" >> }

Raise(e) ==
    /\ exc' = e
    /\ firstExc' = IF firstExc = NoExc THEN e ELSE firstExc
    /\ pc' = HandlerAfterRaise(pc)

StepEntry(i) == IF Steps(script)[i] = "goto" THEN "goto" ELSE "bind"

\* The statement that follows step ip in the try body: the first statement
\* of the next step, or what follows the list.
NextEntry ==
    IF ip < Len(Steps(script)) THEN StepEntry(ip + 1)
    ELSE IF HasAssert(script) THEN "assert_bind"
    ELSE "sleep"

\* Control after step ip returned: the next step, or what follows the list.
Advance ==
    /\ ip' = IF ip < Len(Steps(script)) THEN ip + 1 ELSE ip
    /\ pc' = NextEntry

\* Variant: every navigation is followed by the load-state waits.
StabilizeAgain(next) == "wait_main"

\* A page.goto inside the step list is followed directly by the next
\* statement: no load-state wait and no delay stands between them.
AfterNavigation(next) == next

\* The interpreter compiles the script; asyncio.run(run_test()) enters
\* run_test, which sets pw = browser = context = None.
Load ==
    /\ pc = "load"
    /\ IF HasSyntaxError(script)
       THEN /\ pc' = "not_run"
            /\ exc' = Exc("SyntaxError", "load", "SyntaxError", "raw")
            /\ firstExc' = exc'
       ELSE /\ pc' = "start"
            /\ UNCHANGED << exc, firstExc >>
    /\ UNCHANGED << script, navPage, par, bindLast, lastIssued, inflight,
                    waitFails, ip, handle, rel, relRaised, page, nPages,
                    frame, target, nFrames, fi, textVisible, asserted,
                    finallyEntered >>

Acquire(p, h, q) ==
    /\ pc = p
    /\ \/ /\ handle' = [handle EXCEPT ![h] = "obj"]
          /\ pc' = q
          /\ UNCHANGED << exc, firstExc >>
       \/ /\ Raise(Exc("Error", "setup", "InfrastructureFailure", "raw"))
          /\ UNCHANGED handle
    /\ UNCHANGED << script, navPage, par, bindLast, lastIssued, inflight,
                    waitFails, ip, rel, relRaised, page, nPages, frame,
                    target, nFrames, fi, textVisible, asserted,
                    finallyEntered >>

\* Variant: a setup that assigns the context before the runtime.
ContextFirst(p) ==
    CASE p = "start" -> "context"
      [] p = "launch" -> "browser"
      [] p = "new_context" -> "pw"

\* The handle each statement of the setup assigns, in source order.
SetupHandle(p) ==
    CASE p = "start" -> "pw"
      [] p = "launch" -> "browser"
      [] p = "new_context" -> "context"

\* pw = await async_api.async_playwright().start()
StartRuntime == Acquire("start", SetupHandle("start"), "launch")

\* browser = await pw.chromium.launch(...)
LaunchBrowser == Acquire("launch", SetupHandle("launch"), "new_context")

\* context = await browser.new_context(); context.set_default_timeout(5000)
NewContext == Acquire("new_context", SetupHandle("new_context"), "new_page")

\* page = await context.new_page()
NewPage ==
    /\ pc = "new_page"
    /\ \/ /\ page' = 1
          /\ nPages' = 1
          /\ pc' = "goto0"
          /\ UNCHANGED << exc, firstExc >>
       \/ /\ Raise(Exc("Error", "setup", "InfrastructureFailure", "raw"))
          /\ UNCHANGED << page, nPages >>
    /\ UNCHANGED << script, navPage, par, bindLast, lastIssued, inflight,
                    waitFails, ip, handle, rel, relRaised, frame, target,
                    nFrames, fi, textVisible, asserted, finallyEntered >>

\* Variant: navigations and delays issued on the newest page of the context.
NewestPage == nPages

\* The receiver of every page.goto and page.wait_for_timeout call is the
\* local page, assigned once by page = await context.new_page().
LocalPage == page

\* await page.goto("http://localhost:3000", wait_until="commit", timeout=10000)
Goto0 ==
    /\ pc = "goto0"
    /\ navPage' = LocalPage
    /\ \/ /\ pc' = "wait_main"
          /\ UNCHANGED << exc, firstExc >>
       \/ \E f \in GotoFaults : Raise(Exc(f[1], "step", f[2], "raw"))
    /\ UNCHANGED << script, par, bindLast, lastIssued, inflight, waitFails,
                    ip, handle, rel, relRaised, page, nPages, frame, target,
                    nFrames, fi, textVisible, asserted, finallyEntered >>

\* A best-effort wait at position p that ends with out ("ok" or the class of
\* the exception raised), continuing at q when it returns or is caught.
BestEffortWait(out, q) ==
    IF out = "ok" \/ BestEffortCatches(out)
    THEN /\ pc' = q
         /\ UNCHANGED << exc, firstExc >>
    ELSE Raise(Exc(out, "wait", "BestEffortWaitTimeout", "raw"))

\* try: await page.wait_for_load_state("domcontentloaded", timeout=3000)
\* except async_api.Error: pass; then page.frames is read by the for loop.
WaitMain ==
    /\ pc = "wait_main"
    /\ \E out \in { "ok", "TimeoutError", "Error" } :
          /\ BestEffortWait(out, "wait_frames")
          /\ waitFails' = IF out = "ok" THEN waitFails ELSE waitFails \cup { "main" }
    /\ \E n \in 1..MaxFrames : nFrames' = n
    /\ fi' = 1
    /\ UNCHANGED << script, navPage, par, bindLast, lastIssued, inflight, ip,
                    handle, rel, relRaised, page, nPages, frame, target,
                    textVisible, asserted, finallyEntered >>

\* Variant: a frame loop that stops at the first frame whose wait raised.
BreakOnFailure(out) == IF out = "ok" THEN "wait_frames" ELSE "goto"

\* The except clause of the loop body holds pass only: whatever the wait of
\* one frame ended with, the loop goes on to the next frame.
AfterFrameWait(out) == "wait_frames"

\* One iteration of: for frame in page.frames: try: await
\* frame.wait_for_load_state(...) except async_api.Error: pass
WaitFrame ==
    /\ pc = "wait_frames"
    /\ fi <= nFrames
    /\ \E out \in { "ok", "TimeoutError", "Error" } :
          /\ BestEffortWait(out, AfterFrameWait(out))
          /\ waitFails' = IF out = "ok" THEN waitFails ELSE waitFails \cup { "frame" }
    /\ fi' = IF pc' = "wait_frames" THEN fi + 1 ELSE fi
    /\ UNCHANGED << script, navPage, par, bindLast, lastIssued, inflight, ip,
                    handle, rel, relRaised, page, nPages, frame, target,
                    nFrames, textVisible, asserted, finallyEntered >>

\* The loop is exhausted: control reaches the first step of the list.
FramesDone ==
    /\ pc = "wait_frames"
    /\ fi > nFrames
    /\ ip' = 1
    /\ pc' = StepEntry(1)
    /\ UNCHANGED << script, navPage, par, bindLast, lastIssued, inflight,
                    waitFails, handle, rel, relRaised, page, nPages, frame,
                    target, nFrames, fi, textVisible, asserted,
                    finallyEntered, exc, firstExc >>

\* Variant: the action is scheduled as a task and not awaited.
NotAwaited == FALSE

\* Every page.goto, elem.click and elem.fill call is under await: run_test
\* is suspended from the issue of the action until it returns or raises.
Awaited == TRUE

\* The action of step ip is issued at position p; q is the position at which
\* the suspended run waits for it.
Issue(p, q) ==
    /\ pc = p
    /\ inflight' = inflight \cup { ip }
    /\ lastIssued' = ip
    /\ navPage' = IF p = "goto" THEN LocalPage ELSE navPage
    /\ IF Awaited
       THEN /\ pc' = q
            /\ UNCHANGED ip
       ELSE Advance
    /\ UNCHANGED << script, par, bindLast, waitFails, handle, rel, relRaised,
                    page, nPages, frame, target, nFrames, fi, textVisible,
                    asserted, finallyEntered, exc, firstExc >>

\* page.goto(url, wait_until="commit", timeout=10000) is called.
IssueGoto == Issue("goto", "going")

\* elem.click(timeout=5000) / elem.fill(value) is called.
IssueAct == Issue("act", "acting")

\* await page.goto(url, wait_until="commit", timeout=10000) as a step: the
\* navigation commits, or raises.
StepGoto ==
    /\ pc = "going"
    /\ inflight' = inflight \ { ip }
    /\ \/ /\ ip' = IF ip < Len(Steps(script)) THEN ip + 1 ELSE ip
          /\ pc' = AfterNavigation(NextEntry)
          /\ UNCHANGED << exc, firstExc >>
       \/ /\ \E f \in GotoFaults : Raise(Exc(f[1], "step", f[2], "raw"))
          /\ UNCHANGED ip
    /\ UNCHANGED << script, navPage, par, bindLast, lastIssued, waitFails,
                    handle, rel, relRaised, page, nPages, frame, target,
                    nFrames, fi, textVisible, asserted, finallyEntered >>

\* Variant: the steps act on the page the run opened.
OriginalPage == page

\* context.pages[-1]: the page opened last in the context.
BoundPage == nPages

\* frame = context.pages[-1]; elem = frame.locator(xpath).nth(0)
Bind ==
    /\ pc = "bind"
    /\ frame' = BoundPage
    /\ bindLast' = nPages
    /\ pc' = "settle"
    /\ UNCHANGED << script, navPage, par, lastIssued, inflight, waitFails, ip,
                    handle, rel, relRaised, page, nPages, target, nFrames, fi,
                    textVisible, asserted, finallyEntered, exc, firstExc >>

\* await page.wait_for_timeout(3000): a flat delay on the local page; it
\* raises when the page or the browser is gone.
Settle ==
    /\ pc = "settle"
    /\ navPage' = LocalPage
    /\ \/ /\ pc' = "act"
          /\ UNCHANGED << exc, firstExc >>
       \/ Raise(Exc("Error", "step", "InteractionFault", "raw"))
    /\ UNCHANGED << script, par, bindLast, lastIssued, inflight, waitFails,
                    ip, handle, rel, relRaised, page, nPages, frame, target,
                    nFrames, fi, textVisible, asserted, finallyEntered >>

\* await elem.click(timeout=5000) / await elem.fill(value): the locator is
\* resolved in the page bound to frame; no element or no completion within
\* the timeout raises playwright's TimeoutError.
Act ==
    /\ pc = "acting"
    /\ inflight' = inflight \ { ip }
    /\ \/ /\ target' = frame
          /\ Advance
          /\ UNCHANGED << exc, firstExc >>
       \/ /\ \E f \in ActFaults : Raise(Exc(f[1], "step", f[2], "raw"))
          /\ UNCHANGED << ip, target >>
    /\ UNCHANGED << script, navPage, par, bindLast, lastIssued, waitFails,
                    handle, rel, relRaised, page, nPages, frame, nFrames, fi,
                    textVisible, asserted, finallyEntered >>

\* frame = context.pages[-1] in front of the assertion block.
AssertBind ==
    /\ pc = "assert_bind"
    /\ frame' = BoundPage
    /\ bindLast' = nPages
    /\ pc' = "expect"
    /\ UNCHANGED << script, navPage, par, lastIssued, inflight, waitFails, ip,
                    handle, rel, relRaised, page, nPages, target, nFrames, fi,
                    textVisible, asserted, finallyEntered, exc, firstExc >>

\* try: await expect(...).to_be_visible(timeout=3000)
\* except AssertionError: raise AssertionError("Test case failed: ...")
Expect ==
    /\ pc = "expect"
    /\ asserted' = TRUE
    /\ LET out == ExpectOutcome(textVisible) IN
         IF out = "ok"
         THEN /\ pc' = "sleep"
              /\ UNCHANGED << exc, firstExc >>
         ELSE IF AssertHandlerCatches(out)
         THEN Raise(Exc("AssertionError", "assert", "AssertionNotMet", "scenario"))
         ELSE Raise(Exc(out, "assert", "InteractionFault", "raw"))
    /\ UNCHANGED << script, navPage, par, bindLast, lastIssued, inflight,
                    waitFails, ip, handle, rel, relRaised, page, nPages,
                    frame, target, nFrames, fi, textVisible, finallyEntered >>

\* await asyncio.sleep(5), the last statement of the try body.
Sleep ==
    /\ pc = "sleep"
    /\ pc' = "fin_context"
    /\ UNCHANGED << script, navPage, par, bindLast, lastIssued, inflight,
                    waitFails, ip, handle, rel, relRaised, page, nPages,
                    frame, target, nFrames, fi, textVisible, asserted,
                    finallyEntered, exc, firstExc >>

\* Variant: the exception that was in flight when the finally block was
\* entered stays the one that propagates.
KeepFirst(cur, new) == IF cur = NoExc THEN new ELSE cur

\* An exception raised by a statement of the finally block becomes the one
\* that propagates out of run_test; the exception that was in flight is
\* kept as its __context__ only.
Propagating(cur, new) == new

\* One statement of the finally block: if h: await h.close() (pw: stop()).
\* Calling the method on None raises AttributeError.
Release(p, h, q) ==
    /\ pc = p
    /\ finallyEntered' = TRUE
    /\ IF ~FinallyGuard(handle[h])
       THEN /\ pc' = q
            /\ UNCHANGED << rel, relRaised, exc, firstExc >>
       ELSE IF handle[h] = "None"
       THEN /\ exc' = Propagating(exc,
                        Exc("AttributeError", "release", "TeardownFault", "raw"))
            /\ firstExc' = IF firstExc = NoExc THEN exc' ELSE firstExc
            /\ pc' = AfterReleaseRaise(p)
            /\ UNCHANGED << rel, relRaised >>
       ELSE /\ rel' = [rel EXCEPT ![h] = @ + 1]
            /\ \/ /\ pc' = q
                  /\ UNCHANGED << relRaised, exc, firstExc >>
               \/ /\ relRaised' = [relRaised EXCEPT ![h] = TRUE]
                  /\ exc' = Propagating(exc,
                        Exc("Error", "release", "InfrastructureFailure", "raw"))
                  /\ firstExc' = IF firstExc = NoExc THEN exc' ELSE firstExc
                  /\ pc' = AfterReleaseRaise(p)
    /\ UNCHANGED << script, navPage, par, bindLast, lastIssued, inflight,
                    waitFails, ip, handle, page, nPages, frame, target,
                    nFrames, fi, textVisible, asserted >>

\* Variant: the finally block releases in the order of acquisition.
AcquisitionOrder(p) ==
    CASE p = "fin_context" -> "pw"
      [] p = "fin_browser" -> "browser"
      [] p = "fin_pw" -> "context"

\* The handle each statement of the finally block releases, in source order.
FinallyHandle(p) ==
    CASE p = "fin_context" -> "context"
      [] p = "fin_browser" -> "browser"
      [] p = "fin_pw" -> "pw"

ReleaseContext == Release("fin_context", FinallyHandle("fin_context"), "fin_browser")

ReleaseBrowser == Release("fin_browser", FinallyHandle("fin_browser"), "fin_pw")

ReleaseRuntime == Release("fin_pw", FinallyHandle("fin_pw"), "done")

\* The application under test opens one more page (tab, popup) in the
\* context while the run is between page creation and teardown.
OpenPage ==
    /\ pc \in StabilizePcs \cup StepPcs \cup AssertPcs
    /\ nPages < MaxPages
    /\ nPages' = nPages + 1
    /\ UNCHANGED << script, navPage, par, bindLast, lastIssued, inflight,
                    waitFails, pc, ip, handle, rel, relRaised, page, frame,
                    target, nFrames, fi, textVisible, asserted,
                    finallyEntered, exc, firstExc >>

RunStep ==
    \/ Load
    \/ StartRuntime
    \/ LaunchBrowser
    \/ NewContext
    \/ NewPage
    \/ Goto0
    \/ WaitMain
    \/ WaitFrame
    \/ FramesDone
    \/ IssueGoto
    \/ StepGoto
    \/ Bind
    \/ Settle
    \/ IssueAct
    \/ Act
    \/ AssertBind
    \/ Expect
    \/ Sleep
    \/ ReleaseContext
    \/ ReleaseBrowser
    \/ ReleaseRuntime

Next == RunStep \/ OpenPage

Spec == Init /\ [][Next]_vars

\* Every awaited operation returns or raises: the run always takes its next
\* step.  The application is under no obligation to open pages.
FairSpec == Spec /\ WF_vars(RunStep)

(***************************************************************************)
(* Concurrent runs.  Each launched script is its own run of run_test; the  *)
(* handles are the locals pw, browser and context of that call.  The steps *)
(* between page creation and teardown are one action here: all they do to  *)
(* the handles is to read context.pages.                                   *)
(***************************************************************************)

\* Variant: pw, browser and context as names shared by the runs.
SharedScope(r) == 1

\* pw, browser and context are assigned inside run_test: each call of
\* run_test has its own.
Scope(r) == r

ParLocal(r, h) == par.store[Scope(r)][h]

\* Run r calls a method on the object its name h holds: the name holds 0
\* (None) or the run that created the object.
ParTouch(heap, r, h, released) ==
    LET o == ParLocal(r, h) IN
      IF o = 0 THEN heap
      ELSE [heap EXCEPT ![o][h].users = @ \cup { r },
                        ![o][h].rel = IF released THEN @ + 1 ELSE @]

\* Run r at position p awaits a call on the object named by via (on the
\* library itself when via is "none") that creates an object of kind h; on
\* failure control goes to the finally block.
ParAcquire(r, p, via, h, q) ==
    /\ par.pc[r] = p
    /\ LET used == IF via = "none" THEN par.heap
                   ELSE ParTouch(par.heap, r, via, FALSE) IN
         \/ par' = [par EXCEPT
                 !.heap = [used EXCEPT ![r][h].made = @ + 1],
                 !.store[Scope(r)][h] = r,
                 !.pc[r] = q]
         \/ par' = [par EXCEPT !.heap = used, !.pc[r] = "fin_context"]
    /\ UNCHANGED runVars

ParStartRuntime == \E r \in Runs : ParAcquire(r, "start", "none", "pw", "launch")

ParLaunchBrowser ==
    \E r \in Runs : ParAcquire(r, "launch", "pw", "browser", "new_context")

ParNewContext ==
    \E r \in Runs : ParAcquire(r, "new_context", "browser", "context", "new_page")

\* page = await context.new_page()
ParNewPage ==
    \E r \in Runs :
        /\ par.pc[r] = "new_page"
        /\ \E q \in { "steps", "fin_context" } :
              par' = [par EXCEPT
                  !.heap = ParTouch(par.heap, r, "context", FALSE),
                  !.pc[r] = q]
        /\ UNCHANGED runVars

\* The navigations, waits, steps and assertion of run r: they read
\* context.pages and end, returning or raising, at the finally block.
ParSteps ==
    \E r \in Runs :
        /\ par.pc[r] = "steps"
        /\ par' = [par EXCEPT
              !.heap = ParTouch(par.heap, r, "context", FALSE),
              !.pc[r] = "fin_context"]
        /\ UNCHANGED runVars

\* if h: await h.close() in run r; a raising release leaves run_test.
ParRelease(r, p, q) ==
    /\ par.pc[r] = p
    /\ IF ~FinallyGuard(IF ParLocal(r, FinallyHandle(p)) = 0 THEN "None" ELSE "obj")
       THEN par' = [par EXCEPT !.pc[r] = q]
       ELSE \E after \in { q, AfterReleaseRaise(p) } :
              par' = [par EXCEPT
                  !.heap = ParTouch(par.heap, r, FinallyHandle(p), TRUE),
                  !.pc[r] = after]
    /\ UNCHANGED runVars

ParReleaseContext == \E r \in Runs : ParRelease(r, "fin_context", "fin_browser")

ParReleaseBrowser == \E r \in Runs : ParRelease(r, "fin_browser", "fin_pw")

ParReleaseRuntime == \E r \in Runs : ParRelease(r, "fin_pw", "done")

ParNext ==
    \/ ParStartRuntime
    \/ ParLaunchBrowser
    \/ ParNewContext
    \/ ParNewPage
    \/ ParSteps
    \/ ParReleaseContext
    \/ ParReleaseBrowser
    \/ ParReleaseRuntime

ParInit == Init /\ script = "TC009" /\ textVisible = FALSE

ParSpec == ParInit /\ [][ParNext]_vars

(***************************************************************************)
(* Properties                                                              *)
(***************************************************************************)

Acquired(h) == handle[h] # "None"

NoReleaseRaised == \A h \in Handles : ~relRaised[h]

RunStarted == pc \notin { "load", "not_run" }

\* The run has passed through its finally block and left run_test.
TornDown == pc = "done" /\ finallyEntered

\* C1: when a run has ended, wherever it failed, every handle that was
\* acquired has had its release called exactly once and no other handle has
\* been released.
C1_ReleasedExactlyOnce ==
    pc = "done" =>
        \A h \in Handles : rel[h] = IF Acquired(h) THEN 1 ELSE 0

\* C2: after a setup failure, teardown calls no release on a handle that was
\* never created, calls no release twice, and raises nothing of its own: it
\* raises only when the release of a created handle raised.
C2_PartialTeardown ==
    firstExc.at = "setup" =>
        /\ \A h \in Handles : rel[h] <= 1 /\ (~Acquired(h) => rel[h] = 0)
        /\ exc.cls # "AttributeError"
        /\ exc.at = "release" => \E h \in Handles : Acquired(h) /\ relRaised[h]
        /\ pc = "done" /\ NoReleaseRaised => exc = firstExc

C2_Witness ==
    /\ pc = "done"
    /\ firstExc.at = "setup"
    /\ Acquired("pw") /\ Acquired("browser") /\ ~Acquired("context")
    /\ rel = [h \in Handles |-> IF h = "context" THEN 0 ELSE 1]
    /\ exc = firstExc

\* C3: a release step that raises does not prevent the later release steps:
\* when a run has ended and closing the context raised, the browser was
\* closed and the runtime stopped; when closing the browser raised, the
\* runtime was stopped.
C3_BestEffortRelease ==
    pc = "done" =>
        /\ relRaised["context"] => rel["browser"] = 1 /\ rel["pw"] = 1
        /\ relRaised["browser"] => rel["pw"] = 1

\* C4: when session acquisition failed, the run ends with an error raised
\* and teardown has called the release of every handle acquired before the
\* failure.
C4_AcquisitionFailureSurfaced ==
    pc = "done" /\ firstExc.at = "setup" =>
        /\ exc # NoExc
        /\ \A h \in Handles : Acquired(h) => rel[h] = 1

\* C5: every run that has started eventually is torn down, and once the run
\* has ended nothing changes any more.
C5_EventuallyTornDown ==
    /\ RunStarted ~> TornDown
    /\ [][pc = "done" => UNCHANGED vars]_vars

C5_Witness ==
    /\ TornDown
    /\ firstExc.at = "step"
    /\ ip > 1

\* C6: when the terminal assertion was executed with the expected text not
\* visible, the run ends with an AssertionError that carries the
\* scenario-specific sentence.
C6_AssertionNotMetReason ==
    pc = "done" /\ asserted /\ ~textVisible /\ NoReleaseRaised =>
        exc.cls = "AssertionError" /\ exc.msg = "scenario"

\* C7: when every step succeeded and the expected text is visible at the
\* terminal assertion, the run ends without raising.
C7_PassWhenVisible ==
    pc = "done" /\ asserted /\ textVisible /\ NoReleaseRaised => exc = NoExc

\* C8: after a failure of the terminal assertion the run ends with the
\* scenario's assertion failure as its outcome and with the context, the
\* browser and the runtime all released.
C8_AssertionFailureTeardown ==
    pc = "done" /\ firstExc.at = "assert" =>
        /\ firstExc.tag = "AssertionNotMet"
        /\ \A h \in Handles : rel[h] = 1

\* C9 as stated: no run ends with the error of a click, fill or navigate
\* step that found no element or timed out.
C9_OnlyAssertionOrInfrastructure ==
    pc = "done" => exc.tag \notin { "TargetUnavailable", "ActionTimeout" }

\* C9 amended: the only errors absorbed are those of the best-effort
\* load-state waits; an error raised by session acquisition, by a navigate,
\* click or fill step, by the terminal verification or by a release step
\* ends the run with a raised error, and a run ends raised only for those.
C9_OnlyBestEffortAbsorbed ==
    /\ firstExc.at # "wait"
    /\ pc = "done" =>
        /\ firstExc # NoExc <=> exc # NoExc
        /\ exc # NoExc => exc.at \in { "setup", "step", "assert", "release" }
        /\ firstExc.tag \in { "TargetUnavailable", "ActionTimeout" } =>
              /\ exc # NoExc
              /\ NoReleaseRaised => exc = firstExc

C9_Witness ==
    /\ pc = "done"
    /\ exc.at = "step"
    /\ exc.tag = "TargetUnavailable"
    /\ nFrames = MaxFrames

\* C10: after a step has timed out the error is pending, never dropped, no
\* further step runs, and the run is in its teardown or has ended through it.
C10_StepTimeoutProceedsToTeardown ==
    firstExc.cls = "TimeoutError" =>
        /\ firstExc.at = "step"
        /\ pc \in TeardownPcs \cup { "done" }
        /\ pc = "done" => finallyEntered
        /\ exc # NoExc
        /\ NoReleaseRaised => exc = firstExc

C10_Witness ==
    /\ pc = "done"
    /\ firstExc.at = "step"
    /\ firstExc.tag = "ActionTimeout"
    /\ exc = firstExc
    /\ \A h \in Handles : rel[h] = 1

\* C11: the timeout of the content-loaded wait on the main page is caught
\* and ignored: it is never the error of a run, and the run always goes on
\* from that wait to its first step.
C11_CommitOnlyProceeds ==
    /\ []("main" \in waitFails => firstExc.at # "wait" /\ pc # "wait_main")
    /\ pc = "wait_main" ~> (pc = "goto" /\ ip = 1)

C11_Witness ==
    /\ pc = "done"
    /\ waitFails = { "main" }
    /\ ip = Len(Steps(script))
    /\ exc = NoExc

\* C12: once the run is past the frame loop the wait has been attempted for
\* every frame read from page.frames, and a frame whose wait raised neither
\* ends the loop nor the run.
C12_FrameWaitsIndependent ==
    /\ pc \in StepPcs \cup AssertPcs \cup { "sleep" } =>
          nFrames >= 1 /\ fi = nFrames + 1
    /\ "frame" \in waitFails =>
          /\ firstExc.at # "wait"
          /\ ip = 0 => pc = "wait_frames"

C12_Witness ==
    /\ pc = "bind"
    /\ ip = 2
    /\ "frame" \in waitFails
    /\ nFrames = MaxFrames
    /\ exc = NoExc

\* C13: the steps are issued in their declared order, one at a time: at most
\* one action is in progress, it is the action of the current step, and no
\* statement of a step runs while the action of the previous step is still
\* in progress or before it was issued.
C13_SequentialSteps ==
    /\ Cardinality(inflight) <= 1
    /\ inflight \subseteq { ip }
    /\ pc \in { "going", "acting" } => inflight = { ip } /\ lastIssued = ip
    /\ pc \in { "goto", "bind", "settle", "act" } =>
          inflight = {} /\ lastIssued = ip - 1
    /\ pc \in AssertPcs \cup { "sleep" } =>
          inflight = {} /\ lastIssued = Len(Steps(script))

C13_Witness ==
    /\ pc = "acting"
    /\ ip = 3
    /\ inflight = { 3 }
    /\ target # 0

\* Every step of the list was issued and none of them raised.
AllStepsSucceeded ==
    /\ lastIssued = Len(Steps(script))
    /\ inflight = {}
    /\ firstExc.at \notin { "setup", "step" }

\* C14: in every run in which all action steps succeeded, the terminal
\* assertion has been executed when the run ends.
C14_TerminalAssertion ==
    pc = "done" /\ AllStepsSucceeded => asserted

C18_DenialChecked ==
    /\ RejectionReasonStep(script) # 0
    /\ pc = "done"
    /\ AllStepsSucceeded
    /\ ~textVisible
    /\ NoReleaseRaised
    => /\ asserted
       /\ ExpectedText(script) = "Application Denied"
       /\ exc.cls = "AssertionError"
       /\ exc.msg = "scenario"

\* C19: the browser's release is never called while the release of an
\* existing context has not been called, nor the runtime's while the release
\* of an existing browser has not been called.
C19_ReleaseOrder ==
    /\ rel["browser"] >= 1 /\ Acquired("context") => rel["context"] >= 1
    /\ rel["pw"] >= 1 /\ Acquired("browser") => rel["browser"] >= 1
    /\ pc = "fin_browser" /\ Acquired("context") => rel["context"] = 1
    /\ pc = "fin_pw" /\ Acquired("browser") => rel["browser"] = 1

C19_Witness ==
    /\ pc = "fin_pw"
    /\ rel = [h \in Handles |-> IF h = "pw" THEN 0 ELSE 1]
    /\ firstExc = NoExc

\* C20 as stated: when the first of two identical clicks raised, the second
\* click has been issued by the time the run ends.
C20_RepeatAbsorbsFailure ==
    /\ pc = "done"
    /\ firstExc.tag \in { "TargetUnavailable", "ActionTimeout" }
    /\ ip \in RepeatedClicks(script)
    => lastIssued >= ip + 1

\* C20 amended: when the first of two identical click steps raised, the run
\* is in teardown or has ended, with an error, no action is in progress and
\* the second click has not been issued.
C20_RepeatNotReached ==
    firstExc.at = "step" /\ ip \in RepeatedClicks(script) =>
        /\ pc \in TeardownPcs \cup { "done" }
        /\ exc # NoExc
        /\ inflight = {}
        /\ lastIssued \in { ip - 1, ip }

C20_Witness ==
    /\ pc = "done"
    /\ firstExc.tag = "ActionTimeout"
    /\ ip = 8
    /\ ip \in RepeatedClicks(script)
    /\ lastIssued = 8

\* C15: every run creates at most one runtime, one browser and one context,
\* exactly one of each once its session is complete; only the run that
\* created an object ever calls a method on it or releases it, at most
\* once, and the name a run releases holds an object of its own.
C15_PrivateSession ==
    \A r \in Runs : \A h \in Handles :
        /\ par.heap[r][h].made <= 1
        /\ par.pc[r] = "steps" => par.heap[r][h].made = 1
        /\ par.pc[r] \in { "fin_context", "fin_browser", "fin_pw" } =>
              ParLocal(r, h) \in { 0, r }
        /\ par.heap[r][h].users \subseteq { r }
        /\ par.heap[r][h].rel <= par.heap[r][h].made

C15_Witness ==
    /\ NRuns >= 2
    /\ \A r \in Runs : par.pc[r] = "done"
    /\ \A r \in Runs : \A h \in Handles :
          /\ par.heap[r][h].made = 1
          /\ par.heap[r][h].rel = 1
          /\ par.heap[r][h].users = { r }
          /\ par.store[r][h] = r

\* Indices of the navigations a scenario places inside its step list after
\* the repeated initial navigation (step 1): the re-navigations to a known
\* URL that the scenario's comments describe as recovery.
RecoveryGotos(s) == { i \in 2..Len(Steps(s)) : Steps(s)[i] = "goto" }

\* The first recovery navigation that follows step i, 0 when there is none.
NextRecovery(s, i) ==
    IF \E j \in RecoveryGotos(s) : j > i
    THEN CHOOSE j \in RecoveryGotos(s) :
            j > i /\ \A k \in RecoveryGotos(s) : k > i => j <= k
    ELSE 0

\* C21 as stated: when a click or fill found no resolvable element and the
\* scenario holds a re-navigation after that step, the run has executed the
\* re-navigation when it ends.
C21_RecoveryExecuted ==
    (/\ pc = "done"
     /\ firstExc.tag = "TargetUnavailable"
     /\ NextRecovery(script, ip) # 0)
        => lastIssued >= NextRecovery(script, ip)

\* C21, amended: a re-navigation is an ordinary step of the list.  It is
\* issued only in a run in which no step has raised, and after a step found
\* no resolvable element no later step, re-navigation included, is issued.
C21_RecoveryIsOrdinaryStep ==
    /\ (pc \in { "goto", "going" } /\ ip \in RecoveryGotos(script)) =>
          /\ firstExc = NoExc
          /\ lastIssued \in { ip - 1, ip }
    /\ (firstExc.tag = "TargetUnavailable" /\ NextRecovery(script, ip) # 0) =>
          /\ pc \in TeardownPcs \cup { "done" }
          /\ lastIssued = ip
          /\ lastIssued < NextRecovery(script, ip)

C21_Witness ==
    /\ script = "TC015"
    /\ pc = "done"
    /\ firstExc.tag = "TargetUnavailable"
    /\ ip = 3
    /\ NextRecovery(script, ip) = 4
    /\ lastIssued = 3

\* C22: the page a click or fill acts on is the last page of the context at
\* the moment the action is performed, also when a page was opened after the
\* step bound frame, during its settle delay.
C22_ActsOnCurrentPage ==
    [][pc = "acting" /\ pc' # "acting" /\ firstExc' = firstExc =>
          target' = nPages]_vars

\* C23: every issue of a navigate, click or fill action is the first issue
\* of the next declared step, in a run in which nothing has raised; once an
\* exception is propagating no action is issued any more.
C23_AtMostOneAttempt ==
    [][/\ (pc \in { "goto", "act" } /\ pc' \in { "going", "acting" }) =>
             /\ lastIssued' = lastIssued + 1
             /\ lastIssued' = ip
             /\ inflight = {}
             /\ firstExc = NoExc
       /\ firstExc # NoExc =>
             /\ lastIssued' = lastIssued
             /\ inflight' = {}]_vars

C23_Witness ==
    /\ script = "TC011"
    /\ pc = "done"
    /\ firstExc.cls = "TimeoutError"
    /\ firstExc.at = "step"
    /\ ip = 17
    /\ lastIssued = 17
    /\ ip - 1 \in RepeatedClicks(script)

\* C24: once a navigation, click, fill or the assertion has raised, the run
\* is in the finally block or has left run_test, no action is in progress,
\* and nothing but the position, the releases and the propagating exception
\* changes from then on.
C24_NoStepAfterRaise ==
    /\ [](firstExc.at \in { "step", "assert" } =>
            /\ pc \in TeardownPcs \cup { "done" }
            /\ inflight = {})
    /\ [][firstExc.at \in { "step", "assert" } =>
            /\ pc' \in TeardownPcs \cup { "done" }
            /\ UNCHANGED << ip, lastIssued, inflight, frame, target, bindLast,
                            asserted, page, handle, waitFails, fi >>]_vars

C24_Witness ==
    /\ pc = "fin_pw"
    /\ firstExc.at = "step"
    /\ firstExc.tag = "InteractionFault"
    /\ ip = 4
    /\ Steps(script)[ip] = "fill"
    /\ lastIssued = 4
    /\ rel["context"] = 1
    /\ rel["browser"] = 1

\* C25: when the assertion statement raised and a release of the finally
\* block raised after it, the exception that leaves run_test is the one of
\* the release; the exception of the assertion is not the one propagating.
C25_ReleaseErrorMasks ==
    (firstExc.at = "assert" /\ \E h \in Handles : relRaised[h]) =>
        /\ pc = "done"
        /\ exc.at = "release"
        /\ exc # firstExc
        /\ exc.msg # "scenario"

C25_Witness ==
    /\ script = "TC009"
    /\ pc = "done"
    /\ asserted
    /\ firstExc.at = "assert"
    /\ relRaised["browser"]
    /\ exc.at = "release"
    /\ rel["pw"] = 0

SessionComplete ==
    /\ \A h \in Handles : Acquired(h)
    /\ page # 0

\* C28: a context is held only with a browser, a browser only with a
\* runtime, a page only with a context; and the run is at a navigation, a
\* wait, a step or the assertion, or has issued one, only with all four.
C28_AcquisitionOrder ==
    /\ Acquired("context") => Acquired("browser")
    /\ Acquired("browser") => Acquired("pw")
    /\ page # 0 => Acquired("context")
    /\ pc \in StabilizePcs \cup StepPcs \cup AssertPcs \cup { "sleep" } =>
          SessionComplete
    /\ (navPage # 0 \/ lastIssued # 0 \/ asserted \/ ip # 0) => SessionComplete

C28_Witness ==
    /\ pc = "new_context"
    /\ Acquired("pw")
    /\ Acquired("browser")
    /\ ~Acquired("context")
    /\ page = 0
    /\ exc = NoExc

\* C29: whichever script is launched, it does not end before run_test was
\* entered: once the interpreter is done loading it, the run has started.
C29_EveryScriptBeginsRun ==
    pc # "load" => RunStarted

====
